---- MODULE Spec2Model ----
(***************************************************************************)
(* A model of github.com/wii-tools/powerpc: the patch engine of            *)
(* modify_dol.go (ApplyPatch, ApplyPatchSet) and the encoder helpers of    *)
(* powerpc.go (Instructions.Bytes, calcDestination, SUBI).                 *)
(*                                                                         *)
(* A Go byte slice is a view (array, len) of a backing array whose length  *)
(* is the slice's capacity; every slice of the model starts at index 0 of  *)
(* its array.  heap maps an array's name to its bytes.  "caller" is the    *)
(* array behind the buffer the caller passes in, "fresh" is the array the  *)
(* last bytes.ReplaceAll allocated.                                        *)
(***************************************************************************)
EXTENDS Integers, Sequences, FiniteSets, TLC

VARIABLES pc, heap, args, locals, ret, hist

vars == <<pc, heap, args, locals, ret, hist>>

\* ---------------------------------------------------------------- bounds

\* Longest caller buffer (len(binary)).
MaxLen == 3
\* Most bytes of capacity a backing array holds beyond its slice's length.
MaxSlack == 1
\* Longest Before / After of a patch.
MaxPatchLen == 2
\* Most patches in a PatchSet.
MaxPatches == 2

\* The byte values of the model.  The patch engine only copies bytes and
\* compares them for equality, so two values exercise every branch; both are
\* ASCII, so every UTF-8 sequence bytes.Replace decodes is one byte wide.
ByteVals == {0, 1}

Min(a, b) == IF a < b THEN a ELSE b

Seqs(k) == UNION {[1..m -> ByteVals] : m \in 0..k}

Zeros(k) == [x \in 1..k |-> 0]

\* ------------------------------------------------------ Go slices, errors

nil == "nil"
ErrInconsistentPatch == "ErrInconsistentPatch"
ErrPatchOutOfRange == "ErrPatchOutOfRange"
ErrInvalidPatch == "ErrInvalidPatch"

NilSlice == [arr |-> nil, len |-> 0]

\* len(s) and cap(s) of a slice, and the bytes s[0:len(s)] it shows.
Cap(s, h) == IF s.arr = nil THEN 0 ELSE Len(h[s.arr])

Visible(s, h) == IF s.arr = nil THEN <<>> ELSE SubSeq(h[s.arr], 1, s.len)

\* copy(dst[off:], src) on the bytes dst: min(len(dst)-off, len(src)) bytes
\* of src are written from index off on, every other byte is kept.
Copy(dst, off, src) ==
  [k \in 1..Len(dst) |->
     IF off < k /\ k <= off + Min(Len(dst) - off, Len(src))
     THEN src[k - off] ELSE dst[k]]

\* ------------------------------------------------- bytes.ReplaceAll (Go)

\* bytes.Index(s, sep): the index of the first instance of sep in s, or -1.
Index(s, sep) ==
  LET hits == {p \in 0..(Len(s) - Len(sep)) :
                 SubSeq(s, p + 1, p + Len(sep)) = sep}
  IN IF hits = {} THEN -1 ELSE CHOOSE p \in hits : \A q \in hits : p <= q

\* bytes.Count(s, sep): the number of non-overlapping instances of sep in s;
\* for an empty sep, the number of UTF-8 sequences of s plus one.
RECURSIVE CountFrom(_, _, _)
CountFrom(s, sep, n) ==
  LET i == Index(s, sep)
  IN IF i = -1 THEN n
     ELSE CountFrom(SubSeq(s, i + Len(sep) + 1, Len(s)), sep, n + 1)

Count(s, sep) == IF Len(sep) = 0 THEN Len(s) + 1 ELSE CountFrom(s, sep, 0)

\* The replacement loop of bytes.Replace: t is the output array, w the
\* number of bytes written, start the scan position, i the iteration.
RECURSIVE ReplaceLoop(_, _, _, _, _, _, _, _)
ReplaceLoop(s, old, new, n, i, start, t, w) ==
  IF i = n
  THEN SubSeq(Copy(t, w, SubSeq(s, start + 1, Len(s))), 1,
              w + Min(Len(t) - w, Len(s) - start))
  ELSE LET j == IF Len(old) = 0
                THEN (IF i > 0 THEN start + (IF start < Len(s) THEN 1 ELSE 0)
                               ELSE start)
                ELSE start + Index(SubSeq(s, start + 1, Len(s)), old)
           seg == SubSeq(s, start + 1, j)
           t1 == Copy(t, w, seg)
           w1 == w + Min(Len(t) - w, Len(seg))
           t2 == Copy(t1, w1, new)
           w2 == w1 + Min(Len(t1) - w1, Len(new))
       IN ReplaceLoop(s, old, new, n, i + 1, j + Len(old), t2, w2)

\* bytes.Replace(s, old, new, n): a copy of s with the first n (all, when
\* n < 0) non-overlapping instances of old replaced by new.
Replace(s, old, new, n) ==
  LET m == IF n # 0 THEN Count(s, old) ELSE 0
      k == IF n < 0 \/ m < n THEN m ELSE n
  IN IF m = 0 THEN s
     ELSE ReplaceLoop(s, old, new, k, 0, 0,
                      Zeros(Len(s) + k * (Len(new) - Len(old))), 0)

ReplaceFirst(s, old, new) == Replace(s, old, new, 1)

ReplaceAll(s, old, new) == Replace(s, old, new, -1)

\* ------------------------------------------------------------ ApplyPatch

\* modify_dol.go:54, the consistency check.
InconsistentNever(patch) == FALSE

Inconsistent(patch) == Len(patch.Before) # Len(patch.After)

\* modify_dol.go:57, the range check.
OutOfRangeOffByOne(patch, binary) ==
  patch.AtOffset # 0 /\ patch.AtOffset > binary.len + 1

OutOfRange(patch, binary) ==
  patch.AtOffset # 0 /\ patch.AtOffset > binary.len

\* modify_dol.go:67, binary[AtOffset : AtOffset+patchLen]: Go panics unless
\* 0 <= low <= high <= cap(binary); the high bound is checked against the
\* capacity, not the length.
SliceInBounds(patch, binary, h) ==
  /\ 0 <= patch.AtOffset
  /\ patch.AtOffset + Len(patch.Before) <= Cap(binary, h)

OriginalBytes(patch, binary, h) ==
  SubSeq(h[binary.arr], patch.AtOffset + 1, patch.AtOffset + Len(patch.Before))

\* modify_dol.go:68, the anchor check.
MismatchNever(patch, binary, h) == FALSE

Mismatch(patch, binary, h) == OriginalBytes(patch, binary, h) # patch.Before

\* modify_dol.go:73, copy(binary[patch.AtOffset:], patch.After): the array
\* behind binary after the copy.  binary[AtOffset:] is len(binary)-AtOffset
\* bytes long, so nothing is written at or past len(binary).
AnchoredCopyBefore(patch, binary, h) ==
  Copy(SubSeq(h[binary.arr], 1, binary.len), patch.AtOffset, patch.Before)
    \o SubSeq(h[binary.arr], binary.len + 1, Len(h[binary.arr]))

AnchoredCopy(patch, binary, h) ==
  Copy(SubSeq(h[binary.arr], 1, binary.len), patch.AtOffset, patch.After)
    \o SubSeq(h[binary.arr], binary.len + 1, Len(h[binary.arr]))

Returned(buf, e, h) == [kind |-> "return", buf |-> buf, err |-> e, heap |-> h]

Panicked(h) == [kind |-> "panic", buf |-> NilSlice, err |-> nil, heap |-> h]

\* ApplyPatch(patch, binary) on the heap h.  slack is the capacity the
\* runtime gives the copy of bytes.Replace beyond its length (append rounds
\* the allocation up to a size class); the spare bytes are zero.
ApplyPatch(patch, binary, h, slack) ==
  IF Inconsistent(patch) THEN Returned(NilSlice, ErrInconsistentPatch, h)
  ELSE IF OutOfRange(patch, binary) THEN Returned(NilSlice, ErrPatchOutOfRange, h)
  ELSE IF patch.AtOffset # 0
  THEN IF ~SliceInBounds(patch, binary, h) THEN Panicked(h)
       ELSE IF Mismatch(patch, binary, h)
       THEN Returned(NilSlice, ErrInvalidPatch, h)
       ELSE Returned(binary, nil,
                     [h EXCEPT ![binary.arr] = AnchoredCopy(patch, binary, h)])
  ELSE LET s == Visible(binary, h)
           out == ReplaceAll(s, patch.Before, patch.After)
           spare == IF Count(s, patch.Before) = 0 /\ Len(s) > 0 THEN slack ELSE 0
       IN Returned([arr |-> "fresh", len |-> Len(out)], nil,
                   [h EXCEPT !["fresh"] = out \o Zeros(spare)])

\* ------------------------------------------------------ inputs of a call

Offsets(maxLen) == -1..(maxLen + MaxSlack + 1)

Patches(maxLen, maxPatchLen) ==
  [AtOffset : Offsets(maxLen), Before : Seqs(maxPatchLen), After : Seqs(maxPatchLen)]

NoPatch == [AtOffset |-> 0, Before |-> <<>>, After |-> <<>>]

\* The caller's buffers: a backing array and the slice of it that is passed.
Buffers(maxLen) ==
  {[heap |-> [caller |-> a, fresh |-> <<>>],
    binary |-> [arr |-> "caller", len |-> l]] :
     l \in 0..maxLen, a \in Seqs(maxLen + MaxSlack)}

CallerBuffers(maxLen) ==
  {b \in Buffers(maxLen) :
     /\ b.binary.len <= Len(b.heap.caller)
     /\ Len(b.heap.caller) <= b.binary.len + MaxSlack}

NoRet == [buf |-> NilSlice, err |-> nil]

\* ----------------------------------------------- one call of ApplyPatch

InitPatch ==
  /\ pc = "start"
  /\ \E b \in CallerBuffers(MaxLen) :
       /\ heap = b.heap
       /\ args = [binary |-> b.binary, patch |-> NoPatch]
       /\ hist = [array0 |-> b.heap.caller]
  /\ locals = <<>>
  /\ ret = NoRet

CallApplyPatch ==
  /\ pc = "start"
  /\ \E p \in Patches(MaxLen, MaxPatchLen), slack \in 0..MaxSlack :
       LET r == ApplyPatch(p, args.binary, heap, slack)
       IN /\ args' = [args EXCEPT !.patch = p]
          /\ heap' = r.heap
          /\ ret' = [buf |-> r.buf, err |-> r.err]
          /\ pc' = IF r.kind = "panic" THEN "panic" ELSE "done"
  /\ UNCHANGED <<locals, hist>>

NextPatch == CallApplyPatch

SpecPatch == InitPatch /\ [][NextPatch]_vars

\* ------------------------------------------- properties of one ApplyPatch

\* The caller's buffer as it was when ApplyPatch was called.
binary0 == SubSeq(hist.array0, 1, args.binary.len)

called == pc # "start"

patchLen == Len(args.patch.Before)

\* The anchored range [AtOffset, AtOffset+len(Before)) lies inside the buffer.
AnchoredInside ==
  /\ args.patch.AtOffset > 0
  /\ Len(args.patch.Before) = Len(args.patch.After)
  /\ args.patch.AtOffset + patchLen <= Len(binary0)

AnchorBytes == SubSeq(binary0, args.patch.AtOffset + 1, args.patch.AtOffset + patchLen)

CallerUnchanged == heap.caller = hist.array0

\* C1: an anchored patch whose Before is what the buffer holds at AtOffset
\* returns no error and a buffer of the input's length that holds After at
\* [AtOffset, AtOffset+len(After)) and the input's bytes everywhere else.
C1_AnchoredOverwrite ==
  (called /\ AnchoredInside /\ AnchorBytes = args.patch.Before) =>
    /\ pc = "done"
    /\ ret.err = nil
    /\ ret.buf.len = Len(binary0)
    /\ \A k \in 1..Len(binary0) :
         Visible(ret.buf, heap)[k] =
           IF args.patch.AtOffset < k /\ k <= args.patch.AtOffset + patchLen
           THEN args.patch.After[k - args.patch.AtOffset]
           ELSE binary0[k]

C1_Witness ==
  /\ pc = "done"
  /\ AnchoredInside
  /\ AnchorBytes = args.patch.Before
  /\ patchLen = 2
  /\ args.patch.After # args.patch.Before
  /\ ret.err = nil
  /\ SubSeq(heap.caller, args.patch.AtOffset + 1, args.patch.AtOffset + 2) = args.patch.After

\* C2: an anchored patch whose range lies inside the buffer and whose Before
\* differs from the bytes there fails with ErrInvalidPatch, and the
\* caller's buffer is byte-identical to what it was.
C2_AnchorMismatch ==
  (called /\ AnchoredInside /\ AnchorBytes # args.patch.Before) =>
    /\ pc = "done"
    /\ ret.err = ErrInvalidPatch
    /\ ret.buf = NilSlice
    /\ CallerUnchanged

C2_Witness ==
  /\ pc = "done"
  /\ AnchoredInside
  /\ AnchorBytes # args.patch.Before
  /\ args.patch.After # AnchorBytes
  /\ ret.err = ErrInvalidPatch

\* C3: a patch with len(Before) # len(After) fails with
\* ErrInconsistentPatch whatever AtOffset and the buffer are, and the
\* caller's buffer is byte-identical to its input.
C3_InconsistentFirst ==
  (called /\ Len(args.patch.Before) # Len(args.patch.After)) =>
    /\ pc = "done"
    /\ ret.err = ErrInconsistentPatch
    /\ ret.buf = NilSlice
    /\ CallerUnchanged

\* An inconsistent patch whose offset is also past the buffer's end.
C3_Witness ==
  /\ pc = "done"
  /\ Len(args.patch.Before) # Len(args.patch.After)
  /\ args.patch.AtOffset > Len(binary0)
  /\ ret.err = ErrInconsistentPatch

\* C4: a consistent patch whose non-zero AtOffset exceeds len(binary) fails
\* with ErrPatchOutOfRange and the caller's buffer is unchanged.
C4_OutOfRange ==
  (/\ called
   /\ Len(args.patch.Before) = Len(args.patch.After)
   /\ args.patch.AtOffset # 0
   /\ args.patch.AtOffset > Len(binary0)) =>
    /\ pc = "done"
    /\ ret.err = ErrPatchOutOfRange
    /\ ret.buf = NilSlice
    /\ CallerUnchanged

C4_Witness ==
  /\ pc = "done"
  /\ Len(args.patch.Before) = Len(args.patch.After)
  /\ args.patch.AtOffset = Len(binary0) + 1
  /\ Len(binary0) > 0
  /\ ret.err = ErrPatchOutOfRange

\* The bytes of s from index i on with every occurrence of old replaced by
\* new, scanning left to right and resuming after each matched occurrence.
RECURSIVE ScanFrom(_, _, _, _)
ScanFrom(s, old, new, i) ==
  IF i > Len(s) THEN <<>>
  ELSE IF Len(old) > 0 /\ i + Len(old) - 1 <= Len(s)
          /\ \A k \in 1..Len(old) : s[i + k - 1] = old[k]
       THEN new \o ScanFrom(s, old, new, i + Len(old))
       ELSE <<s[i]>> \o ScanFrom(s, old, new, i + 1)

Occurs(s, old) ==
  \E i \in 1..Len(s) : i + Len(old) - 1 <= Len(s) /\ SubSeq(s, i, i + Len(old) - 1) = old

\* C5: an unanchored patch (AtOffset = 0) returns, without error, a buffer
\* of the input's length that is the input with every non-overlapping
\* occurrence of Before, found left to right, replaced by After; when
\* Before occurs nowhere the returned buffer equals the input.
C5_UnanchoredReplace ==
  (/\ called
   /\ args.patch.AtOffset = 0
   /\ Len(args.patch.Before) = Len(args.patch.After)) =>
    /\ pc = "done"
    /\ ret.err = nil
    /\ ret.buf.len = Len(binary0)
    /\ Visible(ret.buf, heap) = ScanFrom(binary0, args.patch.Before, args.patch.After, 1)
    /\ (~Occurs(binary0, args.patch.Before) => Visible(ret.buf, heap) = binary0)

\* Before = <<1, 1>> in the buffer <<1, 1, 1>>: two overlapping occurrences,
\* of which the scan replaces the first only.
C5_Witness ==
  /\ pc = "done"
  /\ args.patch.AtOffset = 0
  /\ args.patch.Before = <<1, 1>>
  /\ args.patch.After = <<0, 1>>
  /\ binary0 = <<1, 1, 1>>
  /\ Visible(ret.buf, heap) = <<0, 1, 1>>

\* Line 67 reads binary[AtOffset : AtOffset+patchLen] whenever control gets
\* past the two checks with a non-zero offset.
ReadsPastLen ==
  /\ pc = "done"
  /\ ~Inconsistent(args.patch)
  /\ ~OutOfRange(args.patch, args.binary)
  /\ args.patch.AtOffset # 0
  /\ args.patch.AtOffset + patchLen > args.binary.len

\* C9: for a patch with len(Before) = len(After), ApplyPatch returns a
\* buffer or one of the three declared errors: it never aborts with an
\* out-of-bounds failure and never reads outside [0, len(binary)).
C9_TotalAndMemorySafe ==
  (called /\ Len(args.patch.Before) = Len(args.patch.After)) =>
    /\ pc = "done"
    /\ ret.err \in {nil, ErrInconsistentPatch, ErrPatchOutOfRange, ErrInvalidPatch}
    /\ ~ReadsPastLen

\* -------------------------------------------------------- ApplyPatchSet

\* Used by the properties only: what a patch does to the bytes of a buffer,
\* as the patch engine's contract states it: an anchored patch writes After over the bytes from
\* AtOffset on, an unanchored one replaces every occurrence of Before.
Effect(buf, p) ==
  IF p.AtOffset # 0
  THEN [k \in 1..Len(buf) |->
          IF p.AtOffset < k /\ k <= p.AtOffset + Len(p.After)
          THEN p.After[k - p.AtOffset] ELSE buf[k]]
  ELSE ScanFrom(buf, p.Before, p.After, 1)

\* The history of a run of ApplyPatchSet (read by the properties, never by
\* the program): the calls of ApplyPatch made, the
\* bytes the patches applied so far add up to (full), what of them was
\* written through the caller's slice (expect), and whether an unanchored
\* patch has been applied (detached).
HistAfter(h, p, ok) ==
  [h EXCEPT !.attempts = @ + 1,
            !.full = IF ok THEN Effect(@, p) ELSE @,
            !.expect = IF ok /\ ~h.detached /\ p.AtOffset # 0 THEN Effect(@, p) ELSE @,
            !.detached = @ \/ (ok /\ p.AtOffset = 0)]

\* The buffers of a run of ApplyPatchSet are one byte shorter than those of
\* a single call, and the patches of a set are at most one byte long: every
\* outcome of ApplyPatch (each error, the out-of-bounds abort, an anchored
\* and an unanchored success) occurs with such patches.
SetBuffers == CallerBuffers(MaxLen - 1)

SetPatches ==
  [AtOffset : Offsets(MaxLen - 1), Before : Seqs(1), After : Seqs(1)]

InitSet ==
  /\ pc = "loop"
  /\ \E b \in SetBuffers, n \in 0..MaxPatches :
       /\ heap = b.heap
       /\ args = [binary |-> b.binary, n |-> n]
       /\ locals = [binary |-> b.binary, idx |-> 0, err |-> nil, patch |-> NoPatch]
       /\ hist = [array0 |-> b.heap.caller, attempts |-> 0,
                  full |-> Visible(b.binary, b.heap),
                  expect |-> Visible(b.binary, b.heap), detached |-> FALSE]
  /\ ret = NoRet

\* modify_dol.go:90-95, one iteration of the loop over set.Patches:
\* binary, err = ApplyPatch(patch, binary); if err != nil, return nil, err.
SetLoopKeepGoing ==
  /\ pc = "loop"
  /\ locals.idx < args.n
  /\ \E p \in SetPatches, slack \in 0..MaxSlack :
       LET r == ApplyPatch(p, locals.binary, heap, slack)
       IN /\ heap' = r.heap
          /\ hist' = HistAfter(hist, p, r.kind = "return" /\ r.err = nil)
          /\ IF r.kind = "panic"
             THEN /\ pc' = "panic"
                  /\ locals' = [locals EXCEPT !.patch = p]
                  /\ ret' = ret
             ELSE /\ pc' = "loop"
                  /\ locals' = [binary |-> IF r.err = nil THEN r.buf ELSE locals.binary,
                                idx |-> locals.idx + 1, err |-> r.err, patch |-> p]
                  /\ ret' = ret
  /\ UNCHANGED args

SetLoop ==
  /\ pc = "loop"
  /\ locals.idx < args.n
  /\ \E p \in SetPatches, slack \in 0..MaxSlack :
       LET r == ApplyPatch(p, locals.binary, heap, slack)
       IN /\ heap' = r.heap
          /\ hist' = HistAfter(hist, p, r.kind = "return" /\ r.err = nil)
          /\ IF r.kind = "panic"
             THEN /\ pc' = "panic"
                  /\ locals' = [locals EXCEPT !.patch = p]
                  /\ ret' = ret
             ELSE IF r.err # nil
             THEN /\ pc' = "done"
                  /\ locals' = [locals EXCEPT !.binary = r.buf, !.err = r.err, !.patch = p]
                  /\ ret' = [buf |-> NilSlice, err |-> r.err]
             ELSE /\ pc' = "loop"
                  /\ locals' = [binary |-> r.buf, idx |-> locals.idx + 1,
                                err |-> r.err, patch |-> p]
                  /\ ret' = ret
  /\ UNCHANGED args

\* modify_dol.go:97, return binary, err once the loop is over.
SetReturn ==
  /\ pc = "loop"
  /\ locals.idx = args.n
  /\ pc' = "done"
  /\ ret' = [buf |-> locals.binary, err |-> locals.err]
  /\ UNCHANGED <<heap, args, locals, hist>>

NextSet == SetLoop \/ SetReturn

SpecSet == InitSet /\ [][NextSet]_vars

\* ------------------------------------------- properties of ApplyPatchSet

setFailed == pc = "done" /\ ret.err # nil

CallerNow == SubSeq(heap.caller, 1, args.binary.len)

\* The error the patch engine's contract gives patch p on the buffer buf.
ExpectedErr(p, buf) ==
  IF Len(p.Before) # Len(p.After) THEN ErrInconsistentPatch
  ELSE IF p.AtOffset # 0 /\ p.AtOffset > Len(buf) THEN ErrPatchOutOfRange
  ELSE ErrInvalidPatch

MaxInstrs == 3

\* powerpc.go:43-54, 98-100, 125-127: the instructions the package spells
\* out as four bytes.
Padding == <<0, 0, 0, 0>>
BLR == <<78, 128, 0, 32>>
CRXOR == <<76, 198, 49, 130>>
EIEIO == <<124, 0, 6, 172>>
SYNC == <<124, 0, 4, 172>>

InstructionSet == {Padding, BLR, CRXOR, EIEIO, SYNC}

NoHeap == [caller |-> <<>>, fresh |-> <<>>]

\* powerpc.go:36, contents = append(contents, instruction[:]...).
AppendInFront(contents, instruction) == instruction \o contents

AppendInstruction(contents, instruction) == contents \o instruction

InitBytes ==
  /\ pc = "loop"
  /\ heap = NoHeap
  /\ \E m \in 0..MaxInstrs : \E i \in [1..m -> InstructionSet] :
       args = [i |-> i]
  /\ locals = [contents |-> <<>>, k |-> 0]
  /\ ret = [contents |-> <<>>]
  /\ hist = <<>>

\* powerpc.go:35-37, one iteration of the loop over the instructions.
BytesLoop ==
  /\ pc = "loop"
  /\ locals.k < Len(args.i)
  /\ locals' = [contents |-> AppendInstruction(locals.contents, args.i[locals.k + 1]),
                k |-> locals.k + 1]
  /\ UNCHANGED <<pc, heap, args, ret, hist>>

\* powerpc.go:39, return contents.
BytesReturn ==
  /\ pc = "loop"
  /\ locals.k = Len(args.i)
  /\ pc' = "done"
  /\ ret' = [contents |-> locals.contents]
  /\ UNCHANGED <<heap, args, locals, hist>>

NextBytes == BytesLoop \/ BytesReturn

SpecBytes == InitBytes /\ [][NextBytes]_vars

\* C8: Bytes() of n instructions is 4*n bytes long, and bytes 4i..4i+3 of
\* it are the four bytes of the i-th instruction, in order.
C8_BytesLayout ==
  pc = "done" =>
    /\ Len(ret.contents) = 4 * Len(args.i)
    /\ \A i \in 0..(Len(args.i) - 1) : \A j \in 1..4 :
         ret.contents[4 * i + j] = args.i[i + 1][j]

C8_Witness ==
  /\ pc = "done"
  /\ Len(args.i) = 3
  /\ args.i[1] = BLR
  /\ args.i[2] = Padding
  /\ args.i[3] = EIEIO
  /\ Len(ret.contents) = 12

\* ------------------------------------------------------ fixed-width words

\* A Go uint is 64 bits wide: four 16-bit limbs, the most significant first.
\* A uint32 is two such limbs.
Limb == 2^16

\* target - from on uint, wrapping modulo 2^64.
Sub64(a, b) ==
  LET d4 == a[4] - b[4]
      d3 == a[3] - b[3] - (IF d4 < 0 THEN 1 ELSE 0)
      d2 == a[2] - b[2] - (IF d3 < 0 THEN 1 ELSE 0)
      d1 == a[1] - b[1] - (IF d2 < 0 THEN 1 ELSE 0)
  IN <<d1 % Limb, d2 % Limb, d3 % Limb, d4 % Limb>>

Add64(a, n) ==
  LET s4 == a[4] + n
      s3 == a[3] + (s4 \div Limb)
      s2 == a[2] + (s3 \div Limb)
      s1 == a[1] + (s2 \div Limb)
  IN <<s1 % Limb, s2 % Limb, s3 % Limb, s4 % Limb>>

\* offset >> 2 on uint.
Shr2(x) ==
  [k \in 1..4 |-> (x[k] \div 4) + (IF k > 1 THEN (x[k - 1] % 4) * (Limb \div 4) ELSE 0)]

\* uint32(x): the low 32 bits.
Uint32(x) == <<x[3], x[4]>>

\* powerpc.go:6-10, fourByte: the big-endian bytes of a uint32.
fourByte(value) ==
  <<value[1] \div 256, value[1] % 256, value[2] \div 256, value[2] % 256>>

\* powerpc.go:13-20, uint24: panics when num > 0x00FFFFFF.
uint24Panics(num) == num[1] > 255

uint24(num) == SubSeq(fourByte(num), 2, 4)

\* ------------------------------------------------------- calcDestination

\* Largest distance of an address of the model from its base address.
MaxDelta == 4

\* Base addresses: 0, 100, 2^25, 2^26, 2^34 and 2^64 - 4.
AddrBases ==
  {<<0, 0, 0, 0>>, <<0, 0, 0, 100>>, <<0, 0, 512, 0>>, <<0, 0, 1024, 0>>,
   <<0, 4, 0, 0>>, <<65535, 65535, 65535, 65532>>}

Addrs == {Add64(b, d) : b \in AddrBases, d \in 0..MaxDelta}

\* powerpc.go:146-153, calcDestination(from, target).
calcDestination(from, target) ==
  LET offset == Sub64(target, from)
      calc == Uint32(Shr2(offset))
  IN IF uint24Panics(calc)
     THEN [kind |-> "panic", dest |-> <<>>]
     ELSE [kind |-> "return", dest |-> uint24(calc)]

InitBranch ==
  /\ pc = "start"
  /\ heap = NoHeap
  /\ args = [from |-> <<0, 0, 0, 0>>, target |-> <<0, 0, 0, 0>>]
  /\ locals = <<>>
  /\ ret = [dest |-> <<>>]
  /\ hist = <<>>

CallCalcDestination ==
  /\ pc = "start"
  /\ \E from \in Addrs, target \in Addrs :
       LET r == calcDestination(from, target)
       IN /\ args' = [from |-> from, target |-> target]
          /\ ret' = [dest |-> r.dest]
          /\ pc' = IF r.kind = "panic" THEN "panic" ELSE "done"
  /\ UNCHANGED <<heap, locals, hist>>

NextBranch == CallCalcDestination

SpecBranch == InitBranch /\ [][NextBranch]_vars

\* The signed byte offset d = target - from is a multiple of 4.
WordAligned(d) == d[4] % 4 = 0

\* The word count d / 4 lies in the signed 24-bit range: bits 63..25 of d
\* all equal bit 25.
InSigned24(d) ==
  \/ d[1] = 0 /\ d[2] = 0 /\ d[3] < 512
  \/ d[1] = 65535 /\ d[2] = 65535 /\ d[3] >= 65536 - 512

\* The 24-bit two's-complement encoding of d / 4: bits 25..2 of d.
Signed24(d) ==
  LET w == ((d[3] % 1024) * (Limb \div 4)) + (d[4] \div 4)
  IN <<w \div 65536, (w \div 256) % 256, w % 256>>

\* C7: calcDestination fails when target - from is not a multiple of 4 or
\* the word count is outside the signed 24-bit range, and otherwise yields
\* the 24-bit two's-complement encoding of (target - from) / 4.
C7_BranchDisplacement ==
  pc # "start" =>
    LET d == Sub64(args.target, args.from)
    IN IF WordAligned(d) /\ InSigned24(d)
       THEN pc = "done" /\ ret.dest = Signed24(d)
       ELSE pc = "panic"

\* --------------------------------------------------------------- SUBI

\* Largest register number of the model (a Register is 0..31).
MaxReg == 7

Registers == 0..MaxReg

\* 16-bit immediates: 0, 1, 2, 0x7FFF, 0x8000, 0xFFFF.
Immediates == {0, 1, 2, 32767, 32768, 65535}

\* The D-Form layout: opcode(6), target-reg(5), source-reg(5), 16-bit
\* immediate, most significant bit first.
EncodeInstrDForm(opcode, rT, rA, value) ==
  fourByte(<<opcode * 1024 + rT * 32 + rA, value>>)

\* powerpc.go:57-59.
ADDI(rT, rA, value) == EncodeInstrDForm(14, rT, rA, value)

\* -value on uint16.
Neg16(value) == (Limb - value) % Limb

\* powerpc.go:68-70: SUBI passes 0, not rA, as the source register.
SUBI(rT, rA, value) == ADDI(rT, 0, Neg16(value))

InitSubi ==
  /\ pc = "start"
  /\ heap = NoHeap
  /\ args = [rT |-> 0, rA |-> 0, value |-> 0]
  /\ locals = <<>>
  /\ ret = [instr |-> Padding]
  /\ hist = <<>>

CallSUBI ==
  /\ pc = "start"
  /\ \E rT \in Registers, rA \in Registers, value \in Immediates :
       /\ args' = [rT |-> rT, rA |-> rA, value |-> value]
       /\ ret' = [instr |-> SUBI(rT, rA, value)]
  /\ pc' = "done"
  /\ UNCHANGED <<heap, locals, hist>>

NextSubi == CallSUBI

SpecSubi == InitSubi /\ [][NextSubi]_vars

\* C10: SUBI(rT, rA, v) is the word of ADDI(rT, rA, (2^16 - v) mod 2^16):
\* opcode 14, target register rT, source register rA, and the 16-bit
\* two's-complement negation of v as immediate.
C10_SubiIsAddiOfNegation ==
  pc = "done" =>
    LET w == ret.instr
        imm == (65536 - args.value) % 65536
    IN /\ w = ADDI(args.rT, args.rA, imm)
       /\ w[1] \div 4 = 14
       /\ (w[1] % 4) * 8 + (w[2] \div 32) = args.rT
       /\ w[2] % 32 = args.rA
       /\ w[3] * 256 + w[4] = imm

====
